---- MODULE Spec2Model ----
(***************************************************************************)
(* A model of the eufy-checker command line tool (src/src/cli.ts).         *)
(*                                                                         *)
(* Strings are sequences of characters.  A character is a one-letter TLA+  *)
(* string, except for the characters TLA+ strings cannot hold, which are   *)
(* named: "ESC" (U+001B), "TAB" (U+0009), "NEN" (U+5E74), "GATSU"          *)
(* (U+6708), "NICHI" (U+65E5), "FW3" (U+FF13, a full-width digit) and the  *)
(* box-drawing characters "BOX_*".  A message literal of the program is    *)
(* kept as one token of the sequence (it holds no ESC and is never cut).   *)
(* The JavaScript value undefined (a field missing from the response, an   *)
(* option or environment variable not given) is the one-token sequence     *)
(* Undefined.                                                              *)
(***************************************************************************)
EXTENDS Integers, Sequences, FiniteSets, TLC

Undefined == <<"#undefined">>

\* ------------------------------------------------------------ characters

LowerLetters ==
  <<"a","b","c","d","e","f","g","h","i","j","k","l","m",
    "n","o","p","q","r","s","t","u","v","w","x","y","z">>

UpperLetters ==
  <<"A","B","C","D","E","F","G","H","I","J","K","L","M",
    "N","O","P","Q","R","S","T","U","V","W","X","Y","Z">>

Digits == <<"0","1","2","3","4","5","6","7","8","9">>

Range(s) == { s[i] : i \in DOMAIN s }

IsDigit(c) == c \in Range(Digits)

\* White space as String.prototype.trim and the regular expression \s see it.
IsSpace(c) == c \in {" ", "TAB"}

IndexIn(c, s) == CHOOSE i \in DOMAIN s : s[i] = c

charToUpper(c) ==
  IF c \in Range(LowerLetters) THEN UpperLetters[IndexIn(c, LowerLetters)] ELSE c

charToLower(c) ==
  IF c \in Range(UpperLetters) THEN LowerLetters[IndexIn(c, UpperLetters)] ELSE c

toUpperCase(s) == [i \in DOMAIN s |-> charToUpper(s[i])]

toLowerCase(s) == [i \in DOMAIN s |-> charToLower(s[i])]

RECURSIVE trimStart(_)
trimStart(s) ==
  IF s # <<>> /\ IsSpace(Head(s)) THEN trimStart(Tail(s)) ELSE s

RECURSIVE trimEnd(_)
trimEnd(s) ==
  IF s # <<>> /\ IsSpace(s[Len(s)]) THEN trimEnd(SubSeq(s, 1, Len(s) - 1)) ELSE s

\* trim left out.
trim_Bug(s) == s

trim(s) == trimEnd(trimStart(s))

\* JavaScript truthiness of a string-or-undefined value.
Truthy(v) == v # Undefined /\ v # <<>>

RECURSIVE Join(_, _)
Join(ss, sep) ==
  IF ss = <<>> THEN <<>>
  ELSE IF Len(ss) = 1 THEN ss[1]
  ELSE ss[1] \o sep \o Join(Tail(ss), sep)

repeat(c, n) == [i \in 1..n |-> c]

Max2(a, b) == IF a >= b THEN a ELSE b

\* String(n) for a non-negative integer.
RECURSIVE numberToString(_)
numberToString(n) ==
  IF n < 10 THEN <<Digits[n + 1]>>
  ELSE numberToString(n \div 10) \o <<Digits[(n % 10) + 1]>>

\* `${value}` inside a template string.
Template(v) == IF v = Undefined THEN <<"u","n","d","e","f","i","n","e","d">> ELSE v

Contains(s, sub) ==
  \E i \in 0..(Len(s) - Len(sub)) : SubSeq(s, i + 1, i + Len(sub)) = sub

\* ------------------------------------------------------- program state

VARIABLES
  argv,        \* yargs' parse of the command line and environment (l.29-51)
  isTTY,       \* process.stdout.isTTY (l.27)
  pc,          \* "start", "run", "awaiting" or "exited"
  requests,    \* the number of fetch calls issued
  network,     \* what the one fetch call met (set when it settles)
  data,        \* run's local const data: the parsed response (l.209)
  stdout,      \* the console.log calls so far, in order
  stderr,      \* the console.error calls so far, in order
  exitCode,    \* the process's exit status once pc = "exited"
  fnIn,        \* the argument of a formatter applied on its own
  fnOut        \* and its result

vars ==
  <<argv, isTTY, pc, requests, network, data, stdout, stderr, exitCode, fnIn, fnOut>>

\* ---------------------------------------------------------- constants

PRINTER_SKU == <<"V","8","2","6","0","J","4","0">>

\* ------------------------------------------------------------- chalk

ESC == "ESC"

\* chalk at level 3 wraps a non-empty string in an SGR pair; at level 0 (not
\* a terminal) it returns the string as it is.
chalkWrap(open, close, s) ==
  IF ~isTTY \/ s = <<>> THEN s
  ELSE <<ESC, "[">> \o open \o <<"m">> \o s \o <<ESC, "[">> \o close \o <<"m">>

chalkRed(s) == chalkWrap(<<"3","1">>, <<"3","9">>, s)
chalkGreen(s) == chalkWrap(<<"3","2">>, <<"3","9">>, s)
chalkYellow(s) == chalkWrap(<<"3","3">>, <<"3","9">>, s)
chalkBlue(s) == chalkWrap(<<"3","4">>, <<"3","9">>, s)
chalkBold(s) == chalkWrap(<<"1">>, <<"2","2">>, s)

\* ------------------------------------------------- module-level values

email == IF argv.email = Undefined THEN Undefined ELSE trim(argv.email)

backer == IF argv.backer = Undefined THEN Undefined ELSE trim(argv.backer)

highlightSku == toUpperCase(trim(argv.sku))

\* ---------------------------------------------------- status colouring

\* normalizeStatus without the trim.
normalizeStatus_Bug(status) == toLowerCase(status)

normalizeStatus(status) == toLowerCase(trim(status))

\* The branch statusColor takes: the colour it gives the status.
statusClass(status) ==
  LET normalized == normalizeStatus(status) IN
  IF normalized = <<"s","h","i","p","p","e","d">> THEN "green"
  ELSE IF normalized = <<"n","o","t"," ","s","h","i","p">>
          \/ normalized = <<"w","a","i","t","i","n","g">> THEN "yellow"
  ELSE "blue"

\* A call that throws is the record [threw |-> TRUE, message]; one that
\* returns is [threw |-> FALSE, value].
Threw(message) == [threw |-> TRUE, message |-> message, value |-> <<>>]
Returned(value) == [threw |-> FALSE, message |-> <<>>, value |-> value]

TrimOfUndefined == <<"Cannot read properties of undefined (reading 'trim')">>

\* status.trim() on a status missing from the response is a TypeError.
statusColor(status) ==
  IF status = Undefined THEN Threw(TrimOfUndefined)
  ELSE LET class == statusClass(status) IN
       Returned(IF class = "green" THEN chalkGreen(status)
                ELSE IF class = "yellow" THEN chalkYellow(status)
                ELSE chalkBlue(status))

\* --------------------------------------------------- field formatters

formatTracking(item) ==
  IF ~Truthy(item.tracking_number) THEN <<"-">>
  ELSE IF Truthy(item.carrier) THEN item.carrier \o <<" ">> \o item.tracking_number
  ELSE item.tracking_number

\* replace(/\s+/g, " ")
RECURSIVE collapseSpaces(_)
collapseSpaces(s) ==
  IF s = <<>> THEN <<>>
  ELSE IF IsSpace(Head(s)) THEN <<" ">> \o collapseSpaces(trimStart(s))
  ELSE <<Head(s)>> \o collapseSpaces(Tail(s))

\* replace(/c/g, by), by a string (possibly empty)
RECURSIVE replaceAll(_, _, _)
replaceAll(s, c, by) ==
  IF s = <<>> THEN <<>>
  ELSE (IF Head(s) = c THEN by ELSE <<Head(s)>>) \o replaceAll(Tail(s), c, by)

AllDigits(s) == \A i \in DOMAIN s : IsDigit(s[i])

\* normalized.match(/^(\d{4})-(\d{1,2})-(\d{1,2})$/): the set of <<m, d>>
\* digit counts under which the string matches (empty: no match; never more
\* than one).
dateMatches(s) ==
  { md \in (1..2) \X (1..2) :
      /\ Len(s) = 6 + md[1] + md[2]
      /\ AllDigits(SubSeq(s, 1, 4))
      /\ s[5] = "-"
      /\ AllDigits(SubSeq(s, 6, 5 + md[1]))
      /\ s[6 + md[1]] = "-"
      /\ AllDigits(SubSeq(s, 7 + md[1], 6 + md[1] + md[2])) }

\* padStart left out.
padStart_Bug(s, n, c) == s

padStart(s, n, c) == repeat(c, Max2(0, n - Len(s))) \o s

formatEta(item) ==
  LET dateValue ==
        IF Truthy(item.change_deliver_time) THEN item.change_deliver_time
        ELSE IF Truthy(item.local_delivery_time) THEN item.local_delivery_time
        ELSE <<>>
  IN
  IF dateValue = <<>> THEN <<"-">>
  ELSE
    LET normalized ==
          trim(replaceAll(replaceAll(replaceAll(collapseSpaces(dateValue),
                 "NEN", <<"-">>), "GATSU", <<"-">>), "NICHI", <<>>))
        match == dateMatches(normalized)
    IN
    IF match = {} THEN dateValue
    ELSE
      LET md == CHOOSE x \in match : TRUE
          year == SubSeq(normalized, 1, 4)
          month == SubSeq(normalized, 6, 5 + md[1])
          day == SubSeq(normalized, 7 + md[1], 6 + md[1] + md[2])
      IN year \o <<"-">> \o padStart(month, 2, "0") \o <<"-">> \o padStart(day, 2, "0")

\* ------------------------------------------------------ table renderer

\* The length of the match of /\x1b\[[0-9;]*m/ at the head of s, 0 if none.
RECURSIVE paramRun(_)
paramRun(s) ==
  IF s # <<>> /\ (IsDigit(Head(s)) \/ Head(s) = ";") THEN 1 + paramRun(Tail(s)) ELSE 0

ansiMatchLen(s) ==
  IF Len(s) >= 3 /\ s[1] = ESC /\ s[2] = "["
  THEN LET k == paramRun(SubSeq(s, 3, Len(s))) IN
       IF Len(s) >= 3 + k /\ s[3 + k] = "m" THEN 3 + k ELSE 0
  ELSE 0

RECURSIVE stripAnsi(_)
stripAnsi(value) ==
  IF value = <<>> THEN <<>>
  ELSE LET n == ansiMatchLen(value) IN
       IF n > 0 THEN stripAnsi(SubSeq(value, n + 1, Len(value)))
       ELSE <<Head(value)>> \o stripAnsi(Tail(value))

WideChars == {"NEN", "GATSU", "NICHI", "FW3"}

\* string-width: the terminal columns of a string without escape sequences;
\* control characters take none, East Asian wide characters two.
charWidth(c) == IF c = ESC THEN 0 ELSE IF c \in WideChars THEN 2 ELSE 1

RECURSIVE stringWidth(_)
stringWidth(s) ==
  IF s = <<>> THEN 0 ELSE charWidth(Head(s)) + stringWidth(Tail(s))

\* The string's length taken for its width.
visibleWidth_Bug(value) == Len(value)

visibleWidth(value) == stringWidth(stripAnsi(value))

padCell(value, width) ==
  LET printableLength == visibleWidth(value)
      padding == Max2(0, width - printableLength)
  IN value \o repeat(" ", padding)

Line(site, text) == [site |-> site, text |-> text]

\* A row is the ordered list of its <<key, value>> pairs; Qty holds the
\* number as String(row[header]) writes it.
Cell(row, header) ==
  IF \E i \in DOMAIN row : row[i][1] = header
  THEN row[CHOOSE i \in DOMAIN row : row[i][1] = header][2]
  ELSE Undefined

ObjectKeys(row) == [i \in DOMAIN row |-> row[i][1]]

RECURSIVE MaxOf(_, _)
MaxOf(first, rest) ==
  IF rest = <<>> THEN first ELSE MaxOf(Max2(first, Head(rest)), Tail(rest))

tableHeaders(rows) == IF rows = <<>> THEN <<>> ELSE ObjectKeys(rows[1])

tableWidths(rows) ==
  LET headers == tableHeaders(rows) IN
  [h \in DOMAIN headers |->
     MaxOf(visibleWidth(headers[h]),
           [r \in DOMAIN rows |-> visibleWidth(Template(Cell(rows[r], headers[h])))])]

buildBorder(widths, left, mid, right) ==
  <<left>> \o Join([w \in DOMAIN widths |-> repeat("BOX_H", widths[w] + 2)], <<mid>>)
           \o <<right>>

tableLine(cells) == <<"BOX_V", " ">> \o Join(cells, <<" ", "BOX_V", " ">>) \o <<" ", "BOX_V">>

\* The console.log calls of renderTable, in order.
renderTable(rows) ==
  LET headers == tableHeaders(rows)
      widths == tableWidths(rows)
      topBorder == buildBorder(widths, "BOX_TL", "BOX_TM", "BOX_TR")
      headerDivider == buildBorder(widths, "BOX_ML", "BOX_MM", "BOX_MR")
      bottomBorder == buildBorder(widths, "BOX_BL", "BOX_BM", "BOX_BR")
      headerLine == tableLine([h \in DOMAIN headers |-> padCell(headers[h], widths[h])])
      rowLine(row) ==
        tableLine([h \in DOMAIN headers |->
                     padCell(Template(Cell(row, headers[h])), widths[h])])
  IN <<Line("top", topBorder), Line("header", headerLine), Line("divider", headerDivider)>>
     \o [r \in DOMAIN rows |-> Line("row", rowLine(rows[r]))]
     \o <<Line("bottom", bottomBorder)>>

\* ----------------------------------------------------------- the fetch

RequestFailed == <<"Request failed with status ">>

\* fetchOrder without the response.ok check.
fetchOrder_Bug(net) ==
  IF net.kind = "reject" THEN Threw(<<"fetch failed">>)
  ELSE IF net.body = <<>> THEN Threw(<<"Unexpected token < in JSON at position 0">>)
  ELSE Returned(net.body[1])

\* What the one fetch call meets:
\*   [kind |-> "reject"]                       the transport call throws
\*   [kind |-> "response", ok, status, body]   a response; body is <<>> when it
\*                                             is not JSON, else <<value>>
fetchOrder(net) ==
  IF net.kind = "reject" THEN Threw(<<"fetch failed">>)
  ELSE IF ~net.ok THEN Threw(RequestFailed \o numberToString(net.status))
  ELSE IF net.body = <<>> THEN Threw(<<"Unexpected token < in JSON at position 0">>)
  ELSE Returned(net.body[1])

\* ------------------------------------------------ summary and the table

SkuMatches(item) ==
  item.sku_number # Undefined /\ toUpperCase(item.sku_number) = highlightSku

\* items.find(...): the index of the first item with the highlighted SKU, 0
\* when there is none.
findPrinterItem(items) ==
  IF \E i \in DOMAIN items : SkuMatches(items[i])
  THEN CHOOSE i \in DOMAIN items :
         SkuMatches(items[i]) /\ \A j \in 1..(i - 1) : ~SkuMatches(items[j])
  ELSE 0

\* What printSummary writes, or what it throws before writing.
printSummary(items) ==
  LET found == findPrinterItem(items) IN
  IF found = 0
  THEN Returned(<<Line("notfound",
          chalkYellow(<<"Printer SKU ">> \o highlightSku \o <<" not found in order items.">>))>>)
  ELSE LET colored == statusColor(items[found].status) IN
       IF colored.threw THEN colored
       ELSE Returned(<<Line("summary",
              <<"Printer (">> \o highlightSku \o <<") status: ">> \o colored.value)>>)

S_Status == <<"S","t","a","t","u","s">>
S_Item == <<"I","t","e","m">>
S_Qty == <<"Q","t","y">>
S_Tracking == <<"T","r","a","c","k","i","n","g">>
S_ETA == <<"E","T","A">>

itemLabel(item) ==
  LET label == Template(item.product_name) \o <<" ","(","S","K","U"," ">>
                 \o Template(item.sku_number) \o <<")">>
  IN IF SkuMatches(item) THEN chalkBold(label) ELSE label

tableRow(item) ==
  << <<S_Status, statusColor(item.status).value>>,
     <<S_Item, itemLabel(item)>>,
     <<S_Qty, numberToString(item.quantity)>>,
     <<S_Tracking, formatTracking(item)>>,
     <<S_ETA, formatEta(item)>> >>

\* What printTable writes, or what items.map throws before renderTable runs.
printTable(items) ==
  IF \E i \in DOMAIN items : statusColor(items[i].status).threw
  THEN Threw(TrimOfUndefined)
  ELSE Returned(renderTable([i \in DOMAIN items |-> tableRow(items[i])]))

\* ------------------------------------------------------ JSON.stringify

\* A member "key": value of an object; a missing (undefined) field is left out.
jsonString(key, v) ==
  IF v = Undefined THEN <<>> ELSE <<key, "QUOTE">> \o v \o <<"QUOTE", ",">>

jsonItem(item) ==
  <<"{">> \o jsonString("status:", item.status)
          \o jsonString("product_name:", item.product_name)
          \o jsonString("sku_number:", item.sku_number)
          \o <<"quantity:">> \o numberToString(item.quantity) \o <<",">>
          \o jsonString("tracking_number:", item.tracking_number)
          \o jsonString("carrier:", item.carrier)
          \o jsonString("local_delivery_time:", item.local_delivery_time)
          \o jsonString("change_deliver_time:", item.change_deliver_time)
          \o <<"}">>

\* JSON.stringify(data, null, 2), one token per key and punctuation mark.
JSONstringify(resp) ==
  <<"{", "success:", IF resp.success THEN "true" ELSE "false", ",">>
    \o jsonString("code:", resp.code)
    \o jsonString("message:", resp.message)
    \o (IF resp.hasData
        THEN <<"data:", "[">> \o Join([i \in DOMAIN resp.data |-> jsonItem(resp.data[i])], <<",">>)
               \o <<"]">>
        ELSE <<>>)
    \o <<"}">>

\* ------------------------------------------------------------- run

Outcome(out, err, exit) == [out |-> out, err |-> err, exit |-> exit]

\* The catch block of run (l.227-231).
runCatch(out, message) ==
  Outcome(out, <<Line("fetchfail", chalkRed(<<"Failed to fetch order data: ">> \o message))>>, 1)

\* l.211-212: the API's own code and message, and exit status 1.
apiErrorOutcome(resp) ==
  Outcome(<<>>, <<Line("apierror",
    chalkRed(<<"API error: ">> \o Template(resp.code) \o <<" ">> \o Template(resp.message)))>>, 1)

\* l.216-217
jsonOutcome(resp) == Outcome(<<Line("json", JSONstringify(resp))>>, <<>>, 0)

\* l.221-222
noItemsOutcome == Outcome(<<Line("noitems", chalkYellow(<<"No order items found.">>))>>, <<>>, 0)

\* l.225-226: printSummary then printTable; either may throw into the catch
\* block, printTable after the summary line is already written.
renderOutcome(resp) ==
  LET summary == printSummary(resp.data) IN
  IF summary.threw THEN runCatch(<<>>, summary.message)
  ELSE LET table == printTable(resp.data) IN
       IF table.threw THEN runCatch(summary.value, table.message)
       ELSE Outcome(summary.value \o table.value, <<>>, 0)

\* run with --json looked at before the success flag.
runBody_JsonFirst(resp) ==
  IF argv.json THEN jsonOutcome(resp)
  ELSE IF ~resp.success THEN apiErrorOutcome(resp)
  ELSE IF ~resp.hasData \/ Len(resp.data) = 0 THEN noItemsOutcome
  ELSE renderOutcome(resp)

\* run with the empty-list check before the --json check.
runBody_EmptyFirst(resp) ==
  IF ~resp.success THEN apiErrorOutcome(resp)
  ELSE IF ~resp.hasData \/ Len(resp.data) = 0 THEN noItemsOutcome
  ELSE IF argv.json THEN jsonOutcome(resp)
  ELSE renderOutcome(resp)

\* run with data.data.length in place of data.data?.length.
runBody_NoOptionalChain(resp) ==
  IF ~resp.success THEN apiErrorOutcome(resp)
  ELSE IF argv.json THEN jsonOutcome(resp)
  ELSE IF ~resp.hasData
  THEN runCatch(<<>>, <<"Cannot read properties of undefined (reading 'length')">>)
  ELSE IF Len(resp.data) = 0 THEN noItemsOutcome
  ELSE renderOutcome(resp)

\* The body of run's try block once fetchOrder has returned resp (l.210-226):
\* what it writes to each stream and the exit status.
runBody(resp) ==
  IF ~resp.success THEN apiErrorOutcome(resp)
  ELSE IF argv.json THEN jsonOutcome(resp)
  ELSE IF ~resp.hasData \/ Len(resp.data) = 0 THEN noItemsOutcome
  ELSE renderOutcome(resp)

\* ------------------------------------------------------------ inputs

MaxItems == 2

Str_Shipped == <<"S","h","i","p","p","e","d">>
Str_Waiting == <<"w","a","i","t","i","n","g"," ">>
Str_InTransit == <<"I","n"," ","T","r","a","n","s","i","t">>
Str_KanjiDate == <<"2","0","2","4","NEN","0","3","GATSU","0","5","NICHI">>
Str_DashDate == <<"2","0","2","4","-","3","-","5">>

Item(status, name, sku, qty, tracking, carrier, local, change) ==
  [status |-> status, product_name |-> name, sku_number |-> sku, quantity |-> qty,
   tracking_number |-> tracking, carrier |-> carrier,
   local_delivery_time |-> local, change_deliver_time |-> change]

Items ==
  { Item(Str_Shipped, <<"P">>, PRINTER_SKU, 1, <<"1","Z">>, <<"U","P","S">>, <<>>, Str_KanjiDate),
    Item(Str_Waiting, <<"NEN","x">>, toLowerCase(PRINTER_SKU), 12, Undefined, Undefined,
         Str_DashDate, Undefined),
    Item(Str_InTransit, <<"i","n","k">>, <<"A","1">>, 2, <<"T","9">>, <<>>, Undefined, Undefined),
    Item(toUpperCase(Str_Shipped), <<"k","i","t">>, Undefined, 3, <<>>, <<"D","H","L">>,
         <<"s","o","o","n">>, <<>>),
    Item(Undefined, <<"i","n","k">>, <<"A","1">>, 1, Undefined, Undefined, Undefined, Undefined),
    Item(Undefined, <<"P">>, PRINTER_SKU, 1, Undefined, Undefined, Undefined, Undefined) }

ItemLists == UNION { [1..n -> Items] : n \in 0..MaxItems }

Response(success, code, message, hasData, items) ==
  [success |-> success, code |-> code, message |-> message, hasData |-> hasData, data |-> items]

Responses ==
  { Response(TRUE, <<"0">>, <<"o","k">>, TRUE, items) : items \in ItemLists }
  \cup { Response(FALSE, <<"E","0","1">>, <<"b","a","d"," ","b","a","c","k","e","r">>, TRUE, items) :
           items \in ItemLists }
  \cup { Response(ok, <<"0">>, <<"o","k">>, FALSE, <<>>) : ok \in BOOLEAN }

EmptyOk == Response(TRUE, <<"0">>, <<"o","k">>, TRUE, <<>>)

NetworkOutcomes ==
  { [kind |-> "reject", ok |-> FALSE, status |-> 0, body |-> <<>>] }
  \cup { [kind |-> "response", ok |-> FALSE, status |-> st, body |-> b] :
           st \in {404, 500}, b \in {<<>>, <<EmptyOk>>} }
  \cup { [kind |-> "response", ok |-> TRUE, status |-> 200, body |-> <<>>] }
  \cup { [kind |-> "response", ok |-> TRUE, status |-> 200, body |-> <<r>>] : r \in Responses }

Emails == { Undefined, <<>>, <<" ","TAB">>, <<" ","e","@","x"," ">> }
Backers == { Undefined, <<" ">>, <<"7">> }
Skus == { PRINTER_SKU, <<" ","v","8","2","6","0","j","4","0"," ">>, <<"a","1">>, <<"z","z">> }

Argv == [email : Emails, backer : Backers, sku : Skus, json : BOOLEAN]

\* ------------------------------------------------------------ actions

Init ==
  /\ argv \in Argv
  /\ isTTY \in BOOLEAN
  /\ pc = "start"
  /\ requests = 0
  /\ network = <<>>
  /\ data = <<>>
  /\ stdout = <<>>
  /\ stderr = <<>>
  /\ exitCode = 0
  /\ fnIn = <<>>
  /\ fnOut = <<>>

MissingCredentialsLine ==
  Line("missing", chalkRed(<<"Missing credentials. Provide --email and --backer (or set EUFY_EMAIL and EUFY_BACKER_NUMBER).">>))

\* l.57-64: the module-level credential check, before run is called.
MissingCredentials ==
  /\ pc = "start"
  /\ ~(Truthy(email) /\ Truthy(backer))
  /\ stderr' = Append(stderr, MissingCredentialsLine)
  /\ exitCode' = 1
  /\ pc' = "exited"
  /\ UNCHANGED <<argv, isTTY, requests, network, data, stdout, fnIn, fnOut>>

\* l.57, l.234: the check passes and run() is called.
CredentialsPresent ==
  /\ pc = "start"
  /\ Truthy(email) /\ Truthy(backer)
  /\ pc' = "run"
  /\ UNCHANGED <<argv, isTTY, requests, network, data, stdout, stderr, exitCode, fnIn, fnOut>>

\* l.209, l.158: run calls fetchOrder, which issues the request and awaits.
CallFetch ==
  /\ pc = "run"
  /\ requests' = requests + 1
  /\ pc' = "awaiting"
  /\ UNCHANGED <<argv, isTTY, network, data, stdout, stderr, exitCode, fnIn, fnOut>>

\* The await ends with fetchOrder throwing: run's catch block.
FetchFails ==
  /\ pc = "awaiting"
  /\ \E net \in NetworkOutcomes :
       LET r == fetchOrder(net) IN
       /\ r.threw
       /\ network' = <<net>>
       /\ LET o == runCatch(<<>>, r.message) IN
          /\ stdout' = stdout \o o.out
          /\ stderr' = stderr \o o.err
          /\ exitCode' = o.exit
  /\ pc' = "exited"
  /\ UNCHANGED <<argv, isTTY, requests, data, fnIn, fnOut>>

\* The await ends with the parsed response: the rest of run, to the exit.
FetchReturns ==
  /\ pc = "awaiting"
  /\ \E net \in NetworkOutcomes :
       LET r == fetchOrder(net) IN
       /\ ~r.threw
       /\ network' = <<net>>
       /\ data' = <<r.value>>
       /\ LET o == runBody(r.value) IN
          /\ stdout' = stdout \o o.out
          /\ stderr' = stderr \o o.err
          /\ exitCode' = o.exit
  /\ pc' = "exited"
  /\ UNCHANGED <<argv, isTTY, requests, fnIn, fnOut>>

Next ==
  \/ MissingCredentials
  \/ CredentialsPresent
  \/ CallFetch
  \/ FetchFails
  \/ FetchReturns

Spec == Init /\ [][Next]_vars

\* ------------------------------------------- the formatters on their own

DefaultArgv == [email |-> <<"e">>, backer |-> <<"7">>, sku |-> PRINTER_SKU, json |-> FALSE]

InitFn(inputs) ==
  /\ argv = DefaultArgv
  /\ isTTY \in BOOLEAN
  /\ pc = "start"
  /\ requests = 0
  /\ network = <<>>
  /\ data = <<>>
  /\ stdout = <<>>
  /\ stderr = <<>>
  /\ exitCode = 0
  /\ fnIn \in inputs
  /\ fnOut = <<>>

DateStrings ==
  { Str_KanjiDate,
    Str_DashDate,
    <<"2","0","2","4","NEN","3","GATSU","5","NICHI">>,
    <<"2","0","2","4","-","0","3","-","0","5">>,
    <<" ","2","0","2","4","-","1","2","-","5","TAB">>,
    <<"2","0","2","4","-","3","-","5"," ","NICHI">>,
    <<"2","0","2","4","NEN"," ","3","GATSU","5","NICHI">>,
    <<"2","0","2","FW3","NEN","0","3","GATSU","0","5","NICHI">>,
    <<"2","0","2","4","NEN","0","3","GATSU">>,
    <<"2","4","-","3","-","5">>,
    <<"2","0","2","4","/","3","/","5">>,
    <<"s","o","o","n">> }

EtaInputs ==
  { Item(Str_Shipped, <<"P">>, PRINTER_SKU, 1, Undefined, Undefined, local, change) :
      local \in DateStrings \cup {Undefined, <<>>},
      change \in DateStrings \cup {Undefined, <<>>} }

InitEta == InitFn(EtaInputs)

ApplyFormatEta ==
  /\ fnOut = <<>>
  /\ fnOut' = <<formatEta(fnIn)>>
  /\ UNCHANGED <<argv, isTTY, pc, requests, network, data, stdout, stderr, exitCode, fnIn>>

SpecEta == InitEta /\ [][ApplyFormatEta]_vars

StatusWords ==
  { <<"s","h","i","p","p","e","d">>,
    <<"n","o","t"," ","s","h","i","p">>,
    <<"w","a","i","t","i","n","g">>,
    <<"i","n"," ","t","r","a","n","s","i","t">>,
    <<"n","o","t"," "," ","s","h","i","p">>,
    <<"s","h","i","p">>,
    <<"n","o","t","s","h","i","p">>,
    <<"x">> }

Capitalize(s) == [i \in DOMAIN s |-> IF i = 1 THEN charToUpper(s[i]) ELSE s[i]]

StatusInputs ==
  { lead \o w \o trail :
      w \in StatusWords \cup { toUpperCase(x) : x \in StatusWords }
                        \cup { Capitalize(x) : x \in StatusWords },
      lead \in {<<>>, <<" ">>},
      trail \in {<<>>, <<"TAB">>} }
  \cup {<<>>}

InitStatus == InitFn(StatusInputs)

ApplyStatusColor ==
  /\ fnOut = <<>>
  /\ fnOut' = <<[class |-> statusClass(fnIn), text |-> statusColor(fnIn).value]>>
  /\ UNCHANGED <<argv, isTTY, pc, requests, network, data, stdout, stderr, exitCode, fnIn>>

SpecStatus == InitStatus /\ [][ApplyStatusColor]_vars

\* ============================================================ properties

Exited == pc = "exited"

\* A value that is absent, empty, or white space only.
Blank(v) == v = Undefined \/ \A i \in DOMAIN v : v[i] \in {" ", "TAB"}

Sites(lines) == [i \in DOMAIN lines |-> lines[i].site]

Parsed == data # <<>>

\* C1: when the email or the backer number is absent or blank, no network
\* request is ever issued, and the process ends with exactly the
\* missing-credentials line on standard error, nothing on standard output
\* and exit status 1; the run never gets past the credential check.
C1_MissingCredentialsNeverFetch ==
  (Blank(argv.email) \/ Blank(argv.backer)) =>
    /\ requests = 0
    /\ network = <<>>
    /\ pc \in {"start", "exited"}
    /\ Exited => /\ exitCode = 1
                 /\ Sites(stderr) = <<"missing">>
                 /\ stdout = <<>>

C1_Witness ==
  /\ Exited
  /\ argv.email = <<" ", "TAB">>
  /\ argv.backer = <<"7">>
  /\ exitCode = 1
  /\ Sites(stderr) = <<"missing">>

\* C2: a parsed response whose success flag is false ends the process with
\* a non-zero status, one line on standard error holding the response's code
\* and message, and nothing on standard output, whatever --json and the data
\* list are.
C2_ApiErrorOnly ==
  (Exited /\ Parsed /\ ~data[1].success) =>
    /\ exitCode # 0
    /\ stdout = <<>>
    /\ Len(stderr) = 1
    /\ Contains(stderr[1].text, data[1].code)
    /\ Contains(stderr[1].text, data[1].message)

C2_Witness ==
  /\ Exited /\ Parsed /\ ~data[1].success
  /\ argv.json
  /\ Len(data[1].data) > 0
  /\ Sites(stderr) = <<"apierror">>

FetchFailed ==
  network # <<>> /\ (network[1].kind = "reject" \/ ~network[1].ok)

\* C3: when the request fails (the transport call throws, or the status is
\* not a success status) exactly one request has been issued, one error line
\* is on standard error (holding the status code in the status case), nothing
\* is on standard output and the exit status is non-zero; and no run issues
\* more than one request.
C3_FetchFailureNoRetry ==
  /\ requests <= 1
  /\ (Exited /\ FetchFailed) =>
       /\ requests = 1
       /\ Len(stderr) = 1
       /\ stdout = <<>>
       /\ exitCode # 0
       /\ network[1].kind = "response" =>
            Contains(stderr[1].text, numberToString(network[1].status))

C3_Witness ==
  /\ Exited
  /\ network # <<>> /\ network[1].kind = "response" /\ ~network[1].ok
  /\ network[1].body # <<>>
  /\ Sites(stderr) = <<"fetchfail">>

NoItems == ~data[1].hasData \/ data[1].data = <<>>

OnlyNoItemsMessage ==
  /\ Sites(stdout) = <<"noitems">>
  /\ Contains(stdout[1].text, <<"No order items found.">>)
  /\ stderr = <<>>
  /\ exitCode = 0

\* C4 as claimed: every successful run whose item list is empty or missing
\* prints the 'no order items' message and nothing else, and exits zero.
C4_Original ==
  (Exited /\ Parsed /\ data[1].success /\ NoItems) => OnlyNoItemsMessage

\* C4 as amended: every successful run without --json whose item list is
\* empty or missing prints the 'no order items' message and nothing else, and
\* exits zero.
C4_NoItemsWithoutJson ==
  (Exited /\ Parsed /\ data[1].success /\ NoItems /\ ~argv.json) => OnlyNoItemsMessage

C4_Witness ==
  /\ Exited /\ Parsed /\ data[1].success /\ ~argv.json
  /\ ~data[1].hasData
  /\ Sites(stdout) = <<"noitems">>

\* C5: a successful run with --json writes the JSON text of the parsed
\* response and nothing else (no summary, table or 'no items' message),
\* for any item list, and exits zero.
C5_JsonOnly ==
  (Exited /\ Parsed /\ data[1].success /\ argv.json) =>
    /\ stdout = <<Line("json", JSONstringify(data[1]))>>
    /\ stderr = <<>>
    /\ exitCode = 0

C5_Witness ==
  /\ Exited /\ Parsed /\ data[1].success /\ argv.json
  /\ data[1].hasData /\ data[1].data = <<>>
  /\ Sites(stdout) = <<"json">>

\* Equality of two strings up to the case of their letters.
EqualIgnoringCase(a, b) ==
  /\ Len(a) = Len(b)
  /\ \A i \in DOMAIN a :
       \/ a[i] = b[i]
       \/ \E k \in DOMAIN LowerLetters :
            {a[i], b[i]} = {LowerLetters[k], UpperLetters[k]}

\* The value of --sku without its surrounding white space.
SkuOption ==
  LET keep == { i \in DOMAIN argv.sku : argv.sku[i] \notin {" ", "TAB"} } IN
  IF keep = {} THEN <<>>
  ELSE SubSeq(argv.sku, CHOOSE i \in keep : \A j \in keep : i <= j,
                        CHOOSE i \in keep : \A j \in keep : i >= j)

ItemHasSku(item) ==
  item.sku_number # Undefined /\ EqualIgnoringCase(item.sku_number, SkuOption)

RenderRun ==
  Exited /\ Parsed /\ data[1].success /\ ~argv.json /\ ~NoItems

TableSites(n) ==
  <<"top", "header", "divider">> \o [i \in 1..n |-> "row"] \o <<"bottom">>

\* C6: the highlighted SKU is compared without regard to case on both sides;
\* in a successful run without --json and with at least one item, a summary
\* line is written for an item with the highlighted SKU, and when no item has
\* it the 'not found' note is written in its place, followed by the table of
\* all items, with nothing on standard error and exit status zero.
C6_NotFoundIsNotAnError ==
  RenderRun =>
    LET items == data[1].data IN
    IF \E i \in DOMAIN items : ItemHasSku(items[i])
    THEN stdout # <<>> => stdout[1].site = "summary"
    ELSE /\ Sites(stdout) = <<"notfound">> \o TableSites(Len(items))
         /\ Contains(stdout[1].text, toUpperCase(SkuOption))
         /\ stderr = <<>>
         /\ exitCode = 0

\* The one fixed form a run's output takes.
ErrorForm == Len(stderr) = 1 /\ stdout = <<>>
JsonForm == stderr = <<>> /\ Sites(stdout) = <<"json">>
NoItemsForm == stderr = <<>> /\ Sites(stdout) = <<"noitems">>
TableForm ==
  /\ stderr = <<>>
  /\ Parsed
  /\ \E first \in {"summary", "notfound"} :
       Sites(stdout) = <<first>> \o TableSites(Len(data[1].data))
  /\ \A i \in DOMAIN data[1].data :
       Contains(stdout[4 + i].text, data[1].data[i].product_name)

\* C7: every run that has ended has produced exactly one of: one error line
\* on standard error; the raw JSON; the 'no items' message; one summary line
\* followed by the table (top border, header, divider, one row per item in
\* response order, bottom border).  No run mixes two of these.
C7_OneOutputForm ==
  Exited => (ErrorForm \/ JsonForm \/ NoItemsForm \/ TableForm)

\* The positions of s taken by colour-control sequences ESC [ ... m, where
\* ... is any run of digits and semicolons.
EscapePositions(s) ==
  LET starts == { a \in DOMAIN s : s[a] = ESC /\ a + 2 <= Len(s) /\ s[a + 1] = "[" }
      stop(a) == CHOOSE b \in (a + 2)..(Len(s) + 1) :
                   /\ b = Len(s) + 1 \/ ~(IsDigit(s[b]) \/ s[b] = ";")
                   /\ \A k \in (a + 2)..(b - 1) : IsDigit(s[k]) \/ s[k] = ";"
  IN UNION { IF stop(a) <= Len(s) /\ s[stop(a)] = "m" THEN a..stop(a) ELSE {} : a \in starts }

\* The terminal columns of s once its colour-control sequences are removed.
DisplayWidth(s) ==
  LET shown == DOMAIN s \ EscapePositions(s) IN
  Cardinality(shown) + Cardinality({ i \in shown : s[i] \in WideChars })

TableHeaderNames == <<S_Status, S_Item, S_Qty, S_Tracking, S_ETA>>

\* The width of column c: the largest display width among its header and
\* its cells.
ColumnWidth(rows, c) ==
  LET ws == {DisplayWidth(TableHeaderNames[c])}
              \cup { DisplayWidth(rows[r][c][2]) : r \in DOMAIN rows }
  IN CHOOSE w \in ws : \A v \in ws : v <= w

RECURSIVE SumTo(_, _)
SumTo(f, n) == IF n = 0 THEN 0 ELSE f[n] + SumTo(f, n - 1)

TableLines == { i \in DOMAIN stdout : stdout[i].site \in Range(TableSites(1)) }

\* C8: every line of a rendered table (borders, header, divider, rows) has
\* the same display width once colour-control sequences are stripped: one
\* border column, then for each column its width (the largest display width
\* among its header and cells), two margin spaces and a border column.
C8_TableLinesAligned ==
  TableLines # {} =>
    LET rows == [i \in DOMAIN data[1].data |-> tableRow(data[1].data[i])]
        total == 1 + SumTo([c \in 1..5 |-> ColumnWidth(rows, c) + 3], 5)
    IN \A i \in TableLines : DisplayWidth(stdout[i].text) = total

C8_Witness ==
  /\ Exited /\ isTTY
  /\ Cardinality(TableLines) >= 6
  /\ \E i \in TableLines : "NEN" \in Range(stdout[i].text)
  /\ \E i \in TableLines : ESC \in Range(stdout[i].text)
  /\ \E i, j \in TableLines : Len(stdout[i].text) # Len(stdout[j].text)

\* The delivery-time string formatEta is given: the override if it is there
\* and not empty, else the default estimate; <<>> when neither is.
SelectedDate(item) ==
  IF item.change_deliver_time \notin {Undefined, <<>>} THEN item.change_deliver_time
  ELSE IF item.local_delivery_time \notin {Undefined, <<>>} THEN item.local_delivery_time
  ELSE <<>>

\* s reads YYYY NEN MM GATSU DD NICHI.
KanjiDatePattern(s) ==
  /\ Len(s) = 11
  /\ \A i \in {1, 2, 3, 4, 6, 7, 9, 10} : IsDigit(s[i])
  /\ s[5] = "NEN" /\ s[8] = "GATSU" /\ s[11] = "NICHI"

\* s without its leading and trailing white space.
Stripped(s) ==
  LET keep == { i \in DOMAIN s : s[i] \notin {" ", "TAB"} } IN
  IF keep = {} THEN <<>>
  ELSE SubSeq(s, CHOOSE i \in keep : \A j \in keep : i <= j,
                 CHOOSE i \in keep : \A j \in keep : i >= j)

\* s with NICHI dropped, NEN and GATSU read as "-", and the surrounding white
\* space ignored.
LooseDate(s) ==
  LET kept == SelectSeq(s, LAMBDA c : c # "NICHI") IN
  Stripped([i \in DOMAIN kept |-> IF kept[i] \in {"NEN", "GATSU"} THEN "-" ELSE kept[i]])

\* The fields of s at its "-" signs, when s is digits-digits-digits with
\* 4, 1..2 and 1..2 digits; <<>> otherwise.
DateFields(s) ==
  LET dashes == { i \in DOMAIN s : s[i] = "-" } IN
  IF /\ Cardinality(dashes) = 2
     /\ \A i \in DOMAIN s \ dashes : IsDigit(s[i])
     /\ 5 \in dashes
     /\ \E j \in dashes : j \in {7, 8} /\ Len(s) - j \in {1, 2}
  THEN LET j == CHOOSE j \in dashes : j # 5 IN
       <<SubSeq(s, 1, 4), SubSeq(s, 6, j - 1), SubSeq(s, j + 1, Len(s))>>
  ELSE <<>>

TwoDigits(f) == IF Len(f) = 1 THEN <<"0">> \o f ELSE f

\* C9 as claimed: formatEta gives "-" when no date is there, the zero-padded
\* YYYY-MM-DD form when the selected string reads YYYY NEN MM GATSU DD NICHI,
\* and the selected string unchanged in every other case.
C9_Original ==
  fnOut # <<>> =>
    LET sel == SelectedDate(fnIn) IN
    IF sel = <<>> THEN fnOut[1] = <<"-">>
    ELSE IF KanjiDatePattern(sel)
    THEN fnOut[1] = SubSeq(sel, 1, 4) \o <<"-">> \o SubSeq(sel, 6, 7) \o <<"-">> \o SubSeq(sel, 9, 10)
    ELSE fnOut[1] = sel

\* C9 as amended: formatEta gives "-" when no date is there; the zero-padded
\* YYYY-MM-DD form whenever the selected string, with NICHI dropped, NEN and
\* GATSU read as "-" and surrounding white space ignored, is four digits, "-",
\* one or two digits, "-", one or two digits (so the YYYY NEN MM GATSU DD NICHI
\* form, and 2024-3-5 too, which gives 2024-03-05); and the selected string
\* unchanged in every other case.
C9_EtaNormalised ==
  fnOut # <<>> =>
    LET sel == SelectedDate(fnIn)
        fields == DateFields(LooseDate(sel))
    IN
    /\ sel = <<>> => fnOut[1] = <<"-">>
    /\ (sel # <<>> /\ fields # <<>>) =>
         fnOut[1] = fields[1] \o <<"-">> \o TwoDigits(fields[2]) \o <<"-">> \o TwoDigits(fields[3])
    /\ (sel # <<>> /\ fields = <<>>) => fnOut[1] = sel
    /\ KanjiDatePattern(sel) => fields # <<>>
    /\ sel = Str_DashDate => fnOut[1] = <<"2","0","2","4","-","0","3","-","0","5">>

C9_Witness ==
  /\ fnOut = << <<"2","0","2","4","-","0","3","-","0","5">> >>
  /\ fnIn.change_deliver_time = Undefined
  /\ fnIn.local_delivery_time = Str_DashDate

\* The display class of a status, read from what the classifier returned.
ClassIs(name) ==
  fnOut[1].class = (IF name = "shipped" THEN "green"
                    ELSE IF name = "pending" THEN "yellow" ELSE "blue")

Word_Shipped == <<"s","h","i","p","p","e","d">>
Word_NotShip == <<"n","o","t"," ","s","h","i","p">>
Word_Waiting == <<"w","a","i","t","i","n","g">>

TextUnchanged ==
  LET shown == DOMAIN fnOut[1].text \ EscapePositions(fnOut[1].text) IN
  /\ Cardinality(shown) = Len(fnIn)
  /\ \A i \in DOMAIN fnIn :
       \E j \in shown : fnOut[1].text[j] = fnIn[i]
                        /\ Cardinality({ k \in shown : k < j }) = i - 1

ClassifiedAs(s) ==
  /\ ClassIs("shipped") <=> EqualIgnoringCase(s, Word_Shipped)
  /\ ClassIs("pending") <=>
       (EqualIgnoringCase(s, Word_NotShip) \/ EqualIgnoringCase(s, Word_Waiting))
  /\ ClassIs("other") <=>
       ~(\/ EqualIgnoringCase(s, Word_Shipped)
         \/ EqualIgnoringCase(s, Word_NotShip)
         \/ EqualIgnoringCase(s, Word_Waiting))

\* C10 as claimed: every status string gets exactly one class: shipped when
\* it equals "shipped" without regard to case, pending when it so equals "not
\* ship" or "waiting", other for every other string; and the text shown is the
\* status string unchanged.
C10_Original ==
  fnOut # <<>> => (ClassifiedAs(fnIn) /\ TextUnchanged)

\* C10 as amended: the same, with the status compared after its leading and
\* trailing white space is removed (the text shown keeps it).
C10_ClassifiedAfterTrim ==
  fnOut # <<>> => (ClassifiedAs(Stripped(fnIn)) /\ TextUnchanged)

C10_Witness ==
  /\ fnOut # <<>>
  /\ isTTY
  /\ fnIn = <<" ","S","H","I","P","P","E","D","TAB">>
  /\ fnOut[1].class = "green"
  /\ ESC \in Range(fnOut[1].text)

====
